---------------------------- MODULE Spec2Model ----------------------------
(***************************************************************************)
(* Draft State Reconciliation & Advisory Coordination Engine of            *)
(* trackimo-desktop: the React front end (App, DraftView, TeamView,        *)
(* BanSlot, PickCard, RecommendationsPanel) as a state machine.            *)
(*                                                                         *)
(* Each handler (event listener, timer callback, promise continuation,     *)
(* click handler) is one action; the React effects a handler triggers in   *)
(* the same commit are part of that action.                                *)
(***************************************************************************)
EXTENDS Integers, Sequences, FiniteSets, TLC

(***************************************************************************)
(* Values.                                                                 *)
(***************************************************************************)

\* JavaScript `undefined`/`null` of an optional numeric field (types.ts).
Undefined == -2

\* An optional object: None is null, Some(x) the object.
None == <<>>
Some(x) == <<x>>
IsSome(o) == o # <<>>
Get(o) == o[1]

\* JavaScript truthiness of an optional number: not undefined/null and not 0.
Truthy(n) == n # Undefined /\ n # 0

Max(a, b) == IF a >= b THEN a ELSE b

\* The reserved ban value "banned nothing" (BanSlot.tsx).
NoBanSentinel == -1

ROLES == <<"TOP", "JUNGLE", "MIDDLE", "BOTTOM", "UTILITY">>
RoleKeys == {ROLES[i] : i \in 1..Len(ROLES)}

PICK_TIMER == 30
BAN_TIMER == 30

\* Number of ban slots TeamView renders per team (Array.from({length: 5})).
BanSlotsShown == 5

(***************************************************************************)
(* Snapshot records (types.ts).                                            *)
(***************************************************************************)

MkCell(id, locked, selected, pos) ==
    [cell_id |-> id, champion_id |-> locked,
     selected_champion_id |-> selected, assigned_position |-> pos]

MkBan(champ, cell, done) ==
    [champion_id |-> champ, cell_id |-> cell, completed |-> done]

MkAction(ty, actor, inprog, done) ==
    [type |-> ty, actor_cell_id |-> actor,
     is_in_progress |-> inprog, completed |-> done]

MkTeam(id, cells, bans) == [team_id |-> id, cells |-> cells, bans |-> bans]

MkDraft(game, timer, phase, teams, actions, localCell) ==
    [game_id |-> game, timer |-> timer, phase |-> phase, teams |-> teams,
     actions |-> actions, local_player_cell_id |-> localCell]

SeqToSet(s) == {s[i] : i \in 1..Len(s)}

AllCells(ds) ==
    UNION {SeqToSet(ds.teams[t].cells) : t \in 1..Len(ds.teams)}

(***************************************************************************)
(* Action Classifier: pick cells (TeamView.tsx).                           *)
(***************************************************************************)

\* draftState.actions.find(pick, actor = cell, in progress, not completed)
\* used as a truth value.
ActivePickAction(ds, cell) ==
    \E i \in 1..Len(ds.actions) :
        /\ ds.actions[i].type = "pick"
        /\ ds.actions[i].actor_cell_id = cell.cell_id
        /\ ds.actions[i].is_in_progress
        /\ ~ds.actions[i].completed

\* A plausible slip: the !lockedChampId conjunct forgotten.
IsActivelySelectingNoLockTest(ds, cell) ==
    /\ ActivePickAction(ds, cell)
    /\ cell.selected_champion_id # Undefined
    /\ cell.selected_champion_id # 0

IsActivelySelecting(ds, cell) ==
    /\ ActivePickAction(ds, cell)
    /\ cell.selected_champion_id # Undefined
    /\ cell.selected_champion_id # 0
    /\ ~Truthy(cell.champion_id)

\* A plausible slip: the !lockedChampId conjunct forgotten.
IsPreLockedNoLockTest(ds, cell) ==
    /\ ~ActivePickAction(ds, cell)
    /\ cell.selected_champion_id # Undefined
    /\ cell.selected_champion_id # 0

IsPreLocked(ds, cell) ==
    /\ ~ActivePickAction(ds, cell)
    /\ cell.selected_champion_id # Undefined
    /\ cell.selected_champion_id # 0
    /\ ~Truthy(cell.champion_id)

\* A plausible slip: a cell counts as locked only once its preselection
\* has been cleared.
IsLockedUnlessPreselected(cell) ==
    /\ cell.champion_id # Undefined /\ cell.champion_id # 0
    /\ ~Truthy(cell.selected_champion_id)

IsLocked(cell) ==
    cell.champion_id # Undefined /\ cell.champion_id # 0

\* The status text PickCard prints for the three flags.
PickLabel(locked, prelocked, selecting) ==
    IF locked THEN "LOCKED"
    ELSE IF prelocked THEN "PRE-LOCKED"
    ELSE IF selecting THEN "SELECTING..."
    ELSE ""

CellClass(ds, cell) ==
    PickLabel(IsLocked(cell), IsPreLocked(ds, cell),
              IsActivelySelecting(ds, cell))

(***************************************************************************)
(* Action Classifier: ban slots (BanSlot.tsx).                             *)
(***************************************************************************)

\* team.bans[idx]: undefined past the end of the list.
BanAt(team, idx) ==
    IF idx <= Len(team.bans) THEN Some(team.bans[idx]) ELSE None

\* ban.cell_id && draftActions.find(...), used as a truth value.
ActiveBanAction(ban, actions) ==
    /\ Truthy(ban.cell_id)
    /\ \E i \in 1..Len(actions) :
        /\ actions[i].type = "ban"
        /\ actions[i].actor_cell_id = ban.cell_id
        /\ actions[i].is_in_progress
        /\ ~actions[i].completed

\* The earlier inline rendering (DraftView.tsx renderTeam): no branch for
\* the sentinel, which is then drawn like a champion.
BanSlotNoSentinelBranch(banOpt, actions) ==
    IF ~IsSome(banOpt) \/ ~Truthy(Get(banOpt).champion_id)
    THEN [kind |-> "EMPTY", label |-> "", active |-> FALSE]
    ELSE LET ban == Get(banOpt)
             act == ActiveBanAction(ban, actions) /\ ~ban.completed
             pre == ~ActiveBanAction(ban, actions) /\ ~ban.completed
         IN  [kind |-> "CHAMPION",
              label |-> IF ban.completed THEN "BANNED"
                        ELSE IF pre THEN "PRE-SELECTED"
                        ELSE IF act THEN "BANNING..." ELSE "",
              active |-> act]

\* What BanSlot renders: which of its three returns is taken (kind), the
\* status text, and the isActivelyBanning highlight.
BanSlot(banOpt, actions) ==
    IF ~IsSome(banOpt) \/ Get(banOpt).champion_id = 0
    THEN [kind |-> "EMPTY", label |-> "", active |-> FALSE]
    ELSE LET ban == Get(banOpt)
             act == ActiveBanAction(ban, actions) /\ ~ban.completed
             pre == /\ ~ActiveBanAction(ban, actions)
                    /\ ~ban.completed
                    /\ ban.champion_id # Undefined
         IN  IF ban.champion_id = NoBanSentinel
             THEN [kind |-> "NO_BAN",
                   label |-> IF ban.completed THEN "SELECTED"
                             ELSE IF act THEN "BANNING..." ELSE "",
                   active |-> act]
             ELSE [kind |-> "CHAMPION",
                   label |-> IF ban.completed THEN "BANNED"
                             ELSE IF pre THEN "PRE-SELECTED"
                             ELSE IF act THEN "BANNING..." ELSE "",
                   active |-> act]

(***************************************************************************)
(* Identity and roles (DraftView, TeamView, PickCard).                     *)
(***************************************************************************)

\* Cell identifiers of a draft; the manual role map is keyed by them.
MaxCellId == 2
CellIds == 0..MaxCellId

NoRoles == [c \in CellIds |-> ""]

\* draftState?.local_player_cell_id ?? null
CurrentPlayerCellId(ds) == ds.local_player_cell_id

\* assigned_position || manualRoles.get(cell_id): "" is no role.
DisplayRole(cell, manual) ==
    IF cell.assigned_position # "" THEN cell.assigned_position
    ELSE manual[cell.cell_id]

\* getTakenRoles: the roles shown by the other cells of the team.
GetTakenRoles(team, cellId, manual) ==
    {DisplayRole(c, manual) :
        c \in {x \in SeqToSet(team.cells) : x.cell_id # cellId}} \ {""}

\* A plausible slip: every role offered, taken or not.
AvailableRolesUnfiltered(team, cell, manual) == RoleKeys

\* PickCard: ROLES.filter(r => !takenRoles.includes(r) || assignedPosition === r)
AvailableRoles(team, cell, manual) ==
    {r \in RoleKeys :
        \/ r \notin GetTakenRoles(team, cell.cell_id, manual)
        \/ DisplayRole(cell, manual) = r}

\* getPlayerTeamId: team_id of the first team holding the cell, else null.
PlayerTeamIndex(ds, cellId) ==
    LET holds == {t \in 1..Len(ds.teams) :
                    \E c \in SeqToSet(ds.teams[t].cells) : c.cell_id = cellId}
    IN  IF holds = {} THEN 0
        ELSE CHOOSE t \in holds : \A u \in holds : t <= u

\* isPlayerTeam for the team at index t (index 1 is rendered with isBlue).
IsPlayerTeam(ds, t) ==
    IF Truthy(CurrentPlayerCellId(ds))
    THEN /\ CurrentPlayerCellId(ds) # Undefined
         /\ PlayerTeamIndex(ds, CurrentPlayerCellId(ds)) # 0
         /\ ds.teams[PlayerTeamIndex(ds, CurrentPlayerCellId(ds))].team_id
                = ds.teams[t].team_id
    ELSE t = 1

\* isCurrentPlayer for a cell of the team at index t.
IsCurrentPlayer(ds, t, cell, selectedCellForRole) ==
    IF Truthy(CurrentPlayerCellId(ds))
    THEN cell.cell_id = CurrentPlayerCellId(ds)
    ELSE \/ cell.cell_id = selectedCellForRole
         \/ (IsPlayerTeam(ds, t) /\ ~Truthy(selectedCellForRole))

\* getCurrentPlayerRole (DraftView): manual entry, else assigned position,
\* of the cell named by local_player_cell_id; "" is undefined.
GetCurrentPlayerRole(ds, manual) ==
    IF CurrentPlayerCellId(ds) = Undefined THEN ""
    ELSE LET t == PlayerTeamIndex(ds, CurrentPlayerCellId(ds))
         IN  IF t = 0 THEN ""
             ELSE LET cell == CHOOSE c \in SeqToSet(ds.teams[t].cells) :
                                 c.cell_id = CurrentPlayerCellId(ds)
                  IN  IF manual[cell.cell_id] # ""
                      THEN manual[cell.cell_id]
                      ELSE cell.assigned_position

(***************************************************************************)
(* Advisory helpers (RecommendationsPanel.tsx).                            *)
(***************************************************************************)

\* getCurrentPlayerCellId: actor of the first in-progress, uncompleted pick
\* action; Undefined is null.
GetCurrentPlayerCellId(ds) ==
    LET hits == {i \in 1..Len(ds.actions) :
                    /\ ds.actions[i].type = "pick"
                    /\ ds.actions[i].is_in_progress
                    /\ ~ds.actions[i].completed}
    IN  IF hits = {} THEN Undefined
        ELSE ds.actions[CHOOSE i \in hits : \A j \in hits : i <= j].actor_cell_id

\* hasPlayerLockedChampion
HasPlayerLockedChampion(ds) ==
    LET cur == GetCurrentPlayerCellId(ds)
    IN  /\ cur # Undefined
        /\ \E c \in AllCells(ds) : c.cell_id = cur
        /\ LET t == PlayerTeamIndex(ds, cur)
               cell == CHOOSE c \in SeqToSet(ds.teams[t].cells) : c.cell_id = cur
           IN  Truthy(cell.champion_id)

\* getTeamPrelocks: preselected champions of the operator's team-mates.
GetTeamPrelocks(ds) ==
    LET cur == GetCurrentPlayerCellId(ds)
    IN  IF cur = Undefined \/ PlayerTeamIndex(ds, cur) = 0 THEN {}
        ELSE {c.selected_champion_id :
                c \in {x \in SeqToSet(ds.teams[PlayerTeamIndex(ds, cur)].cells) :
                        /\ x.cell_id # cur
                        /\ ~Truthy(x.champion_id)
                        /\ x.selected_champion_id # Undefined
                        /\ x.selected_champion_id > 0}}

\* setTimeout(fetchRecommendations, 300), in ticks of 100 ms.
DebounceTicks == 3

\* The effect's cleanup: clearTimeout(timeoutId) of the previous run.
ClearTimeoutForgotten(pending) == pending

ClearTimeout(pending) == {}

(***************************************************************************)
(* Timer helpers (DraftView, timer effects).                               *)
(***************************************************************************)

\* draftState.phase.includes("BAN")
PhaseIncludesBAN(phase) == phase \in {"BAN_PICK", "BAN1"}

MaxTimerFor(phase) == IF PhaseIncludesBAN(phase) THEN BAN_TIMER ELSE PICK_TIMER

\* The countdown effect's cleanup: clearInterval(interval).
ClearIntervalForgotten(running) == running

ClearInterval(running) == {}

\* One interval callback: Math.max(0, startTimer - elapsed).
IntervalValue(iv) == Max(0, iv.startTimer - iv.elapsed)

(***************************************************************************)
(* State.                                                                  *)
(***************************************************************************)
VARIABLES
    \* the game client (external)
    lcuUp,                 \* the client answers requests
    lcuPhase,              \* its gameflow phase
    lcuGame,               \* id of the latest draft it entered
    lcuSession,            \* the session last published in the latest draft, or None
    \* App
    initPc,                \* position of initialize()
    draftState,            \* useState draftState
    draftStateRef,         \* draftStateRef.current
    previousConnectedRef,
    monitoringStartedRef,
    summonerInfo,          \* summonerInfo !== null
    rankedStats,           \* rankedStats is not empty
    matchHistory,          \* matchHistory is not empty
    acRuns,                \* running autoConnect() invocations
    acTimers,              \* pending setTimeout(autoConnect, 3000)
    polls,                 \* phase polls in flight
    \* DraftView
    currentTimer,
    maxTimer,
    intervals,             \* live countdown intervals
    manualRoles,
    \* RecommendationsPanel
    recommendations,
    loading,
    error,
    timeouts,              \* pending debounce timeouts
    inflight,              \* issued, unsettled requests
    issued,                \* number of requests issued so far
    settled                \* requests whose response was applied

envVars == <<lcuUp, lcuPhase, lcuGame, lcuSession>>
appVars == <<initPc, previousConnectedRef, monitoringStartedRef,
             summonerInfo, rankedStats, matchHistory, acRuns, acTimers>>
timerVars == <<currentTimer, maxTimer, intervals>>
panelVars == <<recommendations, loading, error, timeouts, inflight,
               issued, settled>>
vars == <<lcuUp, lcuPhase, lcuGame, lcuSession, initPc, draftState, draftStateRef,
          previousConnectedRef, monitoringStartedRef, summonerInfo,
          rankedStats, matchHistory, acRuns, acTimers, polls, currentTimer, maxTimer, intervals,
          manualRoles, recommendations, loading, error, timeouts, inflight,
          issued, settled>>

DraftPhases == {"ChampSelect", "ChampionSelect"}

(***************************************************************************)
(* Effects run by a commit of DraftView and RecommendationsPanel.          *)
(***************************************************************************)

\* The countdown effect (deps [draftState?.timer]): runs on mount and when
\* the timer value differs from the previous render's.
CountdownEffect(prev, ds, running) ==
    IF IsSome(prev) /\ Get(prev).timer = ds.timer THEN running
    ELSE LET cleared == IF IsSome(prev) THEN ClearInterval(running) ELSE {}
         IN  IF ds.timer = Undefined THEN cleared
             ELSE cleared \cup {[startTimer |-> ds.timer, elapsed |-> 0]}

\* The debounce effect (deps [draftState, currentPlayerRole]).
DebounceEffect(mounted, ds, role, pending) ==
    (IF mounted THEN ClearTimeout(pending) ELSE {})
        \cup {[draft |-> ds, role |-> role, remaining |-> DebounceTicks]}

\* DraftView and its children leave the tree: cleanups run, state is lost,
\* and responses still in flight can no longer reach a mounted panel.
Unmount ==
    /\ currentTimer' = 0
    /\ maxTimer' = PICK_TIMER
    /\ intervals' = {}
    /\ manualRoles' = NoRoles
    /\ recommendations' = None
    /\ loading' = FALSE
    /\ error' = FALSE
    /\ timeouts' = {}
    /\ inflight' = {}
    /\ UNCHANGED <<issued, settled>>

(***************************************************************************)
(* App: the draft-state-changed listener and the phase poll.               *)
(***************************************************************************)

\* The effect of an earlier DraftView: when the local player's cell is known
\* and has no role, the first role no team-mate holds is stored for it.
AutoSelectRole(ds, manual) ==
    LET me == ds.local_player_cell_id
        t == PlayerTeamIndex(ds, me)
    IN  IF ~Truthy(me) \/ t = 0 THEN manual
        ELSE LET cell == CHOOSE c \in SeqToSet(ds.teams[t].cells) : c.cell_id = me
                 free == {i \in 1..Len(ROLES) :
                            ROLES[i] \notin GetTakenRoles(ds.teams[t], me, manual)}
             IN  IF DisplayRole(cell, manual) # "" \/ free = {} THEN manual
                 ELSE [manual EXCEPT ![me] =
                        ROLES[CHOOSE i \in free : \A j \in free : i <= j]]

\* A plausible slip: that effect is still in place.
DraftStateChangedAutoRole(ds) ==
    /\ initPc = "done"
    /\ draftStateRef' = Some(ds)
    /\ draftState' = Some(ds)
    /\ lcuSession' = Some(ds)
    /\ LET mounted == IsSome(draftState)
           roles == AutoSelectRole(ds, IF mounted THEN manualRoles ELSE NoRoles)
       IN  /\ manualRoles' = roles
           /\ currentTimer' = IF ds.timer # Undefined THEN ds.timer
                              ELSE IF mounted THEN currentTimer ELSE 0
           /\ maxTimer' = IF ds.timer # Undefined THEN MaxTimerFor(ds.phase)
                          ELSE IF mounted THEN maxTimer ELSE PICK_TIMER
           /\ intervals' = CountdownEffect(draftState, ds, intervals)
           /\ timeouts' = DebounceEffect(mounted, ds,
                                GetCurrentPlayerRole(ds, roles), timeouts)
    /\ UNCHANGED <<lcuUp, lcuPhase, lcuGame, appVars, polls, recommendations,
                   loading, error, inflight, issued, settled>>

\* A plausible slip: the listener updates the state only and leaves the
\* reference the phase poll reads as it was.
DraftStateChangedRefForgotten(ds) ==
    /\ initPc = "done"
    /\ draftStateRef' = draftStateRef
    /\ draftState' = Some(ds)
    /\ lcuSession' = Some(ds)
    /\ LET mounted == IsSome(draftState)
           roles == IF mounted THEN manualRoles ELSE NoRoles
       IN  /\ manualRoles' = roles
           /\ currentTimer' = IF ds.timer # Undefined THEN ds.timer
                              ELSE IF mounted THEN currentTimer ELSE 0
           /\ maxTimer' = IF ds.timer # Undefined THEN MaxTimerFor(ds.phase)
                          ELSE IF mounted THEN maxTimer ELSE PICK_TIMER
           /\ intervals' = CountdownEffect(draftState, ds, intervals)
           /\ timeouts' = DebounceEffect(mounted, ds,
                                GetCurrentPlayerRole(ds, roles), timeouts)
    /\ UNCHANGED <<lcuUp, lcuPhase, lcuGame, appVars, polls, recommendations,
                   loading, error, inflight, issued, settled>>

\* listen("draft-state-changed", ...) with payload ds, and the commit that
\* follows it.
DraftStateChanged(ds) ==
    /\ initPc = "done"
    /\ draftStateRef' = Some(ds)
    /\ draftState' = Some(ds)
    /\ lcuSession' = Some(ds)
    /\ LET mounted == IsSome(draftState)
           roles == IF mounted THEN manualRoles ELSE NoRoles
       IN  /\ manualRoles' = roles
           /\ currentTimer' = IF ds.timer # Undefined THEN ds.timer
                              ELSE IF mounted THEN currentTimer ELSE 0
           /\ maxTimer' = IF ds.timer # Undefined THEN MaxTimerFor(ds.phase)
                          ELSE IF mounted THEN maxTimer ELSE PICK_TIMER
           /\ intervals' = CountdownEffect(draftState, ds, intervals)
           /\ timeouts' = DebounceEffect(mounted, ds,
                                GetCurrentPlayerRole(ds, roles), timeouts)
    /\ UNCHANGED <<lcuUp, lcuPhase, lcuGame, appVars, polls, recommendations,
                   loading, error, inflight, issued, settled>>

\* Remove element i of a sequence.
RemoveAt(q, i) == [j \in 1..(Len(q) - 1) |-> IF j < i THEN q[j] ELSE q[j + 1]]

\* Bound on phase polls in flight at once.
MaxPolls == 2

\* The setInterval(..., 2000) callback starts: invoke("get_gameflow_phase").
PollFire ==
    /\ initPc = "done"
    /\ Len(polls) < MaxPolls
    /\ polls' = Append(polls, "?")
    /\ UNCHANGED <<envVars, appVars, draftState, draftStateRef, timerVars,
                   manualRoles, panelVars>>

\* The client answers a poll with its phase, or the request fails.
PollServe(i) ==
    /\ polls[i] = "?"
    /\ polls' = [polls EXCEPT ![i] = IF lcuUp THEN lcuPhase ELSE "ERR"]
    /\ UNCHANGED <<envVars, appVars, draftState, draftStateRef, timerVars,
                   manualRoles, panelVars>>

\* A plausible slip: the test reads the draftState captured by the effect's
\* closure, which is the null of the first render.
DraftEndedStaleClosure(ref, phase) ==
    /\ FALSE
    /\ phase \notin DraftPhases

\* draftStateRef.current && phase !== "ChampSelect" && phase !== "ChampionSelect"
DraftEnded(ref, phase) ==
    /\ IsSome(ref)
    /\ phase \notin DraftPhases

\* The awaited phase arrives: the rest of the interval callback.
PollResult(i) ==
    /\ polls[i] # "?"
    /\ polls' = RemoveAt(polls, i)
    /\ IF /\ polls[i] # "ERR"
          /\ DraftEnded(draftStateRef, polls[i])
       THEN /\ draftStateRef' = None
            /\ draftState' = None
            /\ IF IsSome(draftState) THEN Unmount
               ELSE UNCHANGED <<timerVars, manualRoles, panelVars>>
       ELSE UNCHANGED <<draftState, draftStateRef, timerVars, manualRoles,
                        panelVars>>
    /\ UNCHANGED <<envVars, appVars>>

(***************************************************************************)
(* DraftView: countdown.                                                   *)
(***************************************************************************)

\* Bound on the time an interval is followed for.
MaxElapsed == 4

\* One second passes.
SecondPasses ==
    /\ intervals # {}
    /\ \A iv \in intervals : iv.elapsed < MaxElapsed
    /\ intervals' = {[iv EXCEPT !.elapsed = @ + 1] : iv \in intervals}
    /\ UNCHANGED <<envVars, appVars, draftState, draftStateRef, polls,
                   currentTimer, maxTimer, manualRoles, panelVars>>

\* A countdown interval's callback.
IntervalTick(iv) ==
    /\ iv \in intervals
    /\ currentTimer' = IntervalValue(iv)
    /\ UNCHANGED <<envVars, appVars, draftState, draftStateRef, polls,
                   maxTimer, intervals, manualRoles, panelVars>>

(***************************************************************************)
(* DraftView / PickCard: manual role selection.                            *)
(***************************************************************************)

\* A click on a role of the selector PickCard shows for `cell` of team t:
\* handleRoleSelect(cell.cell_id, role), then the commit.
SelectRole(t, cell, role, selectedCellForRole) ==
    /\ IsSome(draftState)
    /\ LET ds == Get(draftState)
       IN  /\ t \in 1..Len(ds.teams)
           /\ cell \in SeqToSet(ds.teams[t].cells)
           /\ IsPlayerTeam(ds, t)
           /\ IsCurrentPlayer(ds, t, cell, selectedCellForRole)
           /\ role \in AvailableRoles(ds.teams[t], cell, manualRoles)
           /\ manualRoles' = [manualRoles EXCEPT ![cell.cell_id] = role]
           /\ timeouts' =
                IF GetCurrentPlayerRole(ds, manualRoles')
                     = GetCurrentPlayerRole(ds, manualRoles)
                THEN timeouts
                ELSE DebounceEffect(TRUE, ds,
                        GetCurrentPlayerRole(ds, manualRoles'), timeouts)
    /\ UNCHANGED <<envVars, appVars, draftState, draftStateRef, polls,
                   timerVars, recommendations, loading, error, inflight,
                   issued, settled>>

(***************************************************************************)
(* RecommendationsPanel: debounced advisory requests.                      *)
(***************************************************************************)

\* Bound on the advisory requests issued in one run.
MaxRequests == 2

\* 100 ms pass.
DebounceElapses ==
    /\ \E t \in timeouts : t.remaining > 0
    /\ timeouts' = {[t EXCEPT !.remaining = Max(0, @ - 1)] : t \in timeouts}
    /\ UNCHANGED <<envVars, appVars, draftState, draftStateRef, polls,
                   timerVars, manualRoles, recommendations, loading, error,
                   inflight, issued, settled>>

\* A debounce timeout fires: fetchRecommendations up to its await.
FetchRecommendations(t) ==
    /\ t \in timeouts
    /\ t.remaining = 0
    /\ issued < MaxRequests
    /\ timeouts' = timeouts \ {t}
    /\ loading' = TRUE
    /\ error' = FALSE
    /\ issued' = issued + 1
    /\ inflight' = inflight \cup
            {[gen |-> issued + 1, draft |-> t.draft, role |-> t.role]}
    /\ UNCHANGED <<envVars, appVars, draftState, draftStateRef, polls,
                   timerVars, manualRoles, recommendations, settled>>

\* invoke("get_draft_recommendations") resolves: setRecommendations(result),
\* finally setLoading(false).  The result is named by its request.
AdviceResolved(r) ==
    /\ r \in inflight
    /\ inflight' = inflight \ {r}
    /\ recommendations' = Some([gen |-> r.gen, draft |-> r.draft, role |-> r.role])
    /\ loading' = FALSE
    /\ settled' = settled \cup {r.gen}
    /\ UNCHANGED <<envVars, appVars, draftState, draftStateRef, polls,
                   timerVars, manualRoles, error, timeouts, issued>>

\* A plausible slip: the catch block also drops the stored result.
AdviceRejectedClearsResult(r) ==
    /\ r \in inflight
    /\ inflight' = inflight \ {r}
    /\ error' = TRUE
    /\ loading' = FALSE
    /\ recommendations' = None
    /\ UNCHANGED <<envVars, appVars, draftState, draftStateRef, polls,
                   timerVars, manualRoles, timeouts, issued, settled>>

\* The invoke rejects: setError(msg), finally setLoading(false).
AdviceRejected(r) ==
    /\ r \in inflight
    /\ inflight' = inflight \ {r}
    /\ error' = TRUE
    /\ loading' = FALSE
    /\ UNCHANGED <<envVars, appVars, draftState, draftStateRef, polls,
                   timerVars, manualRoles, recommendations, timeouts, issued,
                   settled>>

\* What the panel renders.
PanelView ==
    IF ~IsSome(draftState) THEN "unmounted"
    ELSE IF HasPlayerLockedChampion(Get(draftState)) THEN "suppressed"
    ELSE IF loading THEN "loading"
    ELSE IF error THEN "error"
    ELSE IF ~IsSome(recommendations) /\ GetTeamPrelocks(Get(draftState)) = {}
         THEN "nothing"
    ELSE "shown"

(***************************************************************************)
(* App: initialize() and the autoConnect() chain.                          *)
(***************************************************************************)

dvVars == <<timerVars, manualRoles, panelVars>>

\* fetchPlayerInfo: maxRetries
maxRetries == 3

\* initialize(): getVersion and loadChampions are done; autoConnect() is
\* called and awaited.
InitLoaded ==
    /\ initPc = "loading"
    /\ initPc' = "autoConnect"
    /\ acRuns' = Append(acRuns, [pc |-> "probe", awaited |-> TRUE, retryCount |-> 0,
                 returned |-> ""])
    /\ UNCHANGED <<envVars, draftState, draftStateRef, previousConnectedRef,
                   monitoringStartedRef, summonerInfo, rankedStats,
                   matchHistory, acTimers, polls, dvVars>>

\* initialize(): listen() resolved; the listener is registered and the
\* phase-poll interval is created.
InitListening ==
    /\ initPc = "listen"
    /\ initPc' = "done"
    /\ UNCHANGED <<envVars, draftState, draftStateRef, previousConnectedRef,
                   monitoringStartedRef, summonerInfo, rankedStats,
                   matchHistory, acRuns, acTimers, polls, dvVars>>

\* Bound on the autoConnect chains followed at once.
MaxChains == 2

\* initialize(): an awaited call of the try block rejects, getVersion()
\* before autoConnect() or listen() after it; the catch block runs
\* setTimeout(initialize, 500).
InitFails ==
    /\ initPc \in {"loading", "listen"}
    /\ initPc = "listen" => Len(acRuns) + acTimers < MaxChains
    /\ initPc' = "retry"
    /\ UNCHANGED <<envVars, draftState, draftStateRef, previousConnectedRef,
                   monitoringStartedRef, summonerInfo, rankedStats,
                   matchHistory, acRuns, acTimers, polls, dvVars>>

\* setTimeout(initialize, 500) fires: initialize() starts again.
InitRetryFires ==
    /\ initPc = "retry"
    /\ initPc' = "loading"
    /\ UNCHANGED <<envVars, draftState, draftStateRef, previousConnectedRef,
                   monitoringStartedRef, summonerInfo, rankedStats,
                   matchHistory, acRuns, acTimers, polls, dvVars>>

\* The tail of autoConnect(): setTimeout(autoConnect, 3000); an awaiting
\* initialize() resumes.
AcFinish(i) ==
    /\ acRuns' = RemoveAt(acRuns, i)
    /\ acTimers' = acTimers + 1
    /\ initPc' = IF acRuns[i].awaited THEN "listen" ELSE initPc

\* A plausible slip: the setTimeout sits inside the try block, so a failed
\* run ends the chain.
AcCatchNoRetry(i) ==
    /\ previousConnectedRef' = FALSE
    /\ monitoringStartedRef' = FALSE
    /\ summonerInfo' = FALSE
    /\ rankedStats' = FALSE
    /\ matchHistory' = FALSE
    /\ acRuns' = RemoveAt(acRuns, i)
    /\ acTimers' = acTimers
    /\ initPc' = IF acRuns[i].awaited THEN "listen" ELSE initPc
    /\ UNCHANGED <<envVars, draftState, draftStateRef, polls, dvVars>>

\* The catch block of autoConnect().
AcCatch(i) ==
    /\ previousConnectedRef' = FALSE
    /\ monitoringStartedRef' = FALSE
    /\ summonerInfo' = FALSE
    /\ rankedStats' = FALSE
    /\ matchHistory' = FALSE
    /\ AcFinish(i)
    /\ UNCHANGED <<envVars, draftState, draftStateRef, polls, dvVars>>

\* setTimeout(autoConnect, 3000) fires.
AcTimerFires ==
    /\ acTimers > 0
    /\ acTimers' = acTimers - 1
    /\ acRuns' = Append(acRuns, [pc |-> "probe", awaited |-> FALSE, retryCount |-> 0,
                 returned |-> ""])
    /\ UNCHANGED <<envVars, initPc, draftState, draftStateRef,
                   previousConnectedRef, monitoringStartedRef, summonerInfo,
                   rankedStats, matchHistory, polls, dvVars>>

\* The connectivity probe invoke("get_gameflow_phase") resolves.
AcProbeOk(i) ==
    /\ acRuns[i].pc = "probe"
    /\ lcuUp
    /\ previousConnectedRef' = TRUE
    /\ acRuns' = [acRuns EXCEPT ![i].pc =
                    IF ~monitoringStartedRef THEN "start" ELSE "fetch"]
    /\ UNCHANGED <<envVars, initPc, draftState, draftStateRef,
                   monitoringStartedRef, summonerInfo, rankedStats,
                   matchHistory, acTimers, polls, dvVars>>

\* The connectivity probe rejects.
AcProbeFail(i) ==
    /\ acRuns[i].pc = "probe"
    /\ ~lcuUp
    /\ AcCatch(i)

\* invoke("start_draft_monitoring") resolves.  The test that follows,
\* !wasConnected || !summonerInfo, reads the summonerInfo of the render
\* that created this autoConnect, which is always null: the fetch follows.
AcStartOk(i) ==
    /\ acRuns[i].pc = "start"
    /\ lcuUp
    /\ monitoringStartedRef' = TRUE
    /\ acRuns' = [acRuns EXCEPT ![i].pc = "fetch"]
    /\ UNCHANGED <<envVars, initPc, draftState, draftStateRef,
                   previousConnectedRef, summonerInfo, rankedStats,
                   matchHistory, acTimers, polls, dvVars>>

\* invoke("start_draft_monitoring") rejects.
AcStartFail(i) ==
    /\ acRuns[i].pc = "start"
    /\ ~lcuUp
    /\ AcCatch(i)

\* The positions of an autoConnect() run inside fetchPlayerInfo: awaiting
\* get_current_summoner, get_ranked_stats, get_match_history.
FetchPcs == {"fetch", "ranked", "history"}

\* A plausible slip: the retry test admits one attempt more.
FetchCatchOneMore(i) ==
    IF acRuns[i].retryCount <= maxRetries
    THEN /\ acRuns' = [acRuns EXCEPT ![i].retryCount = @ + 1, ![i].pc = "fetch"]
         /\ UNCHANGED <<summonerInfo, rankedStats, matchHistory>>
    ELSE /\ summonerInfo' = FALSE
         /\ rankedStats' = FALSE
         /\ matchHistory' = FALSE
         /\ acRuns' = [acRuns EXCEPT ![i].pc = "tail", ![i].returned = "false"]

\* fetchPlayerInfo, the outer catch block: after the back-off the next
\* attempt starts, or on the last attempt the player data is cleared and
\* false is returned.
FetchCatch(i) ==
    IF acRuns[i].retryCount < maxRetries
    THEN /\ acRuns' = [acRuns EXCEPT ![i].retryCount = @ + 1, ![i].pc = "fetch"]
         /\ UNCHANGED <<summonerInfo, rankedStats, matchHistory>>
    ELSE /\ summonerInfo' = FALSE
         /\ rankedStats' = FALSE
         /\ matchHistory' = FALSE
         /\ acRuns' = [acRuns EXCEPT ![i].pc = "tail", ![i].returned = "false"]

\* fetchPlayerInfo: the awaited invoke resolves.  After the match history
\* true is returned.
AcFetchOk(i) ==
    /\ acRuns[i].pc \in FetchPcs
    /\ lcuUp
    /\ summonerInfo' = IF acRuns[i].pc = "fetch" THEN TRUE ELSE summonerInfo
    /\ rankedStats' = IF acRuns[i].pc = "ranked" THEN TRUE ELSE rankedStats
    /\ matchHistory' = IF acRuns[i].pc = "history" THEN TRUE ELSE matchHistory
    /\ acRuns' = [acRuns EXCEPT
            ![i].pc = IF acRuns[i].pc = "fetch" THEN "ranked"
                      ELSE IF acRuns[i].pc = "ranked" THEN "history"
                      ELSE "tail",
            ![i].returned = IF acRuns[i].pc = "history" THEN "true" ELSE @]
    /\ UNCHANGED <<envVars, initPc, draftState, draftStateRef,
                   previousConnectedRef, monitoringStartedRef, acTimers,
                   polls, dvVars>>

\* fetchPlayerInfo: the awaited invoke rejects.  A rejected
\* get_match_history is caught by the inner catch block: the history is
\* emptied and true is returned.
AcFetchFail(i) ==
    /\ acRuns[i].pc \in FetchPcs
    /\ ~lcuUp
    /\ IF acRuns[i].pc = "history"
       THEN /\ matchHistory' = FALSE
            /\ acRuns' = [acRuns EXCEPT ![i].pc = "tail", ![i].returned = "true"]
            /\ UNCHANGED <<summonerInfo, rankedStats>>
       ELSE FetchCatch(i)
    /\ UNCHANGED <<envVars, initPc, draftState, draftStateRef,
                   previousConnectedRef, monitoringStartedRef, acTimers,
                   polls, dvVars>>

\* autoConnect() resumes after await fetchPlayerInfo(): its tail.
AcTail(i) ==
    /\ acRuns[i].pc = "tail"
    /\ AcFinish(i)
    /\ UNCHANGED <<envVars, draftState, draftStateRef, previousConnectedRef,
                   monitoringStartedRef, summonerInfo, rankedStats,
                   matchHistory, polls, dvVars>>

(* The game client.                                                        *)
(***************************************************************************)

GameflowPhases == {"None", "ChampSelect", "InProgress"}

\* Bound on the drafts the client enters in one run.
MaxGames == 2

LcuStarts ==
    /\ ~lcuUp
    /\ lcuUp' = TRUE
    /\ lcuPhase' = "None"
    /\ UNCHANGED <<lcuGame, lcuSession, appVars, draftState, draftStateRef, polls, dvVars>>

LcuStops ==
    /\ lcuUp
    /\ lcuUp' = FALSE
    /\ lcuPhase' = "None"
    /\ UNCHANGED <<lcuGame, lcuSession, appVars, draftState, draftStateRef, polls, dvVars>>

LcuPhaseChanges(ph) ==
    /\ lcuUp
    /\ ph # lcuPhase
    /\ ph = "ChampSelect" => lcuGame < MaxGames
    /\ lcuPhase' = ph
    /\ lcuGame' = IF ph = "ChampSelect" THEN lcuGame + 1 ELSE lcuGame
    /\ lcuSession' = IF ph = "ChampSelect" THEN None ELSE lcuSession
    /\ UNCHANGED <<lcuUp, appVars, draftState, draftStateRef, polls, dvVars>>

\* The client publishes session ds while in champion select; the listener
\* handles it.
Publish(ds) ==
    /\ lcuUp
    /\ lcuPhase = "ChampSelect"
    /\ DraftStateChanged(ds)

(***************************************************************************)
(* Draft sessions the client publishes.                                    *)
(***************************************************************************)

\* Team identifiers of the two sides.
BlueTeam == 100
RedTeam == 200

\* A session with nothing hovered, locked or banned yet.
FreshDraft(g, timer, localCell, pos0, pos1) ==
    MkDraft(g, timer, "BAN_PICK",
            <<MkTeam(BlueTeam, <<MkCell(0, 0, 0, pos0), MkCell(1, 0, 0, pos1)>>, <<>>),
              MkTeam(RedTeam, <<MkCell(2, 0, 0, "")>>, <<>>)>>,
            <<>>, localCell)

(***************************************************************************)
(* Specification of the connection supervisor: start-up, the autoConnect   *)
(* chain, the listener and the phase poll against a client that starts,    *)
(* stops and changes phase.                                                *)
(***************************************************************************)

InitApp ==
    /\ lcuUp \in BOOLEAN
    /\ lcuPhase = "None"
    /\ lcuGame = 0
    /\ lcuSession = None
    /\ initPc = "loading"
    /\ draftState = None
    /\ draftStateRef = None
    /\ previousConnectedRef = FALSE
    /\ monitoringStartedRef = FALSE
    /\ summonerInfo = FALSE
    /\ rankedStats = FALSE
    /\ matchHistory = FALSE
    /\ acRuns = <<>>
    /\ acTimers = 0
    /\ polls = <<>>
    /\ currentTimer = 0
    /\ maxTimer = PICK_TIMER
    /\ intervals = {}
    /\ manualRoles = NoRoles
    /\ recommendations = None
    /\ loading = FALSE
    /\ error = FALSE
    /\ timeouts = {}
    /\ inflight = {}
    /\ issued = 0
    /\ settled = {}

\* A session that has no team yet.
EmptyDraft(g) == MkDraft(g, Undefined, "PLANNING", <<>>, <<>>, Undefined)

ConnSessions == {FreshDraft(lcuGame, 30, 0, "", ""), EmptyDraft(lcuGame)}

AutoConnectStep ==
    \/ AcTimerFires
    \/ \E i \in DOMAIN acRuns : AcProbeOk(i)
    \/ \E i \in DOMAIN acRuns : AcProbeFail(i)
    \/ \E i \in DOMAIN acRuns : AcStartOk(i)
    \/ \E i \in DOMAIN acRuns : AcStartFail(i)
    \/ \E i \in DOMAIN acRuns : AcFetchOk(i)
    \/ \E i \in DOMAIN acRuns : AcFetchFail(i)
    \/ \E i \in DOMAIN acRuns : AcTail(i)

ClientStep ==
    \/ LcuStarts
    \/ LcuStops
    \/ \E ph \in GameflowPhases : LcuPhaseChanges(ph)

PollStep ==
    \/ PollFire
    \/ \E i \in DOMAIN polls : PollServe(i)
    \/ \E i \in DOMAIN polls : PollResult(i)

NextConn ==
    \/ InitLoaded
    \/ InitListening
    \/ AutoConnectStep
    \/ ClientStep
    \/ PollStep
    \/ \E ds \in ConnSessions : Publish(ds)

SpecConn == InitApp /\ [][NextConn]_vars

\* The interval callback and the client's answers are never postponed
\* forever: setInterval keeps firing and every invoke settles.
SpecConnFair ==
    /\ SpecConn
    /\ WF_vars(PollFire)
    /\ WF_vars(\E i \in DOMAIN polls : PollServe(i))
    /\ WF_vars(\E i \in DOMAIN polls : PollResult(i))

(***************************************************************************)
(* Specification of start-up: initialize(), whose awaited calls may fail   *)
(* and which is then started again, and the autoConnect chains it starts,  *)
(* against a client that starts, stops and changes phase.                  *)
(***************************************************************************)

NextStartup ==
    \/ InitLoaded
    \/ InitListening
    \/ InitFails
    \/ InitRetryFires
    \/ AutoConnectStep
    \/ ClientStep

SpecStartup == InitApp /\ [][NextStartup]_vars

(***************************************************************************)
(* Specification of the pick classifier: the listener applied to the       *)
(* sessions of drafts in which cells hover, lock and take their turns.     *)
(***************************************************************************)

\* The app once start-up has completed against a running client that is in
\* champion select: initialize() is done and autoConnect() waits for its
\* next run.
InitConnected ==
    /\ lcuUp = TRUE
    /\ lcuPhase = "ChampSelect"
    /\ lcuGame = 1
    /\ lcuSession = None
    /\ initPc = "done"
    /\ draftState = None
    /\ draftStateRef = None
    /\ previousConnectedRef = TRUE
    /\ monitoringStartedRef = TRUE
    /\ summonerInfo = TRUE
    /\ rankedStats = TRUE
    /\ matchHistory = TRUE
    /\ acRuns = <<>>
    /\ acTimers = 1
    /\ polls = <<>>
    /\ currentTimer = 0
    /\ maxTimer = PICK_TIMER
    /\ intervals = {}
    /\ manualRoles = NoRoles
    /\ recommendations = None
    /\ loading = FALSE
    /\ error = FALSE
    /\ timeouts = {}
    /\ inflight = {}
    /\ issued = 0
    /\ settled = {}

\* A champion id.
Champ == 7

\* The turns of a draft, none begun.
PickSchedule ==
    <<MkAction("ban", 0, FALSE, FALSE),
      MkAction("pick", 0, FALSE, FALSE),
      MkAction("pick", 2, FALSE, FALSE)>>

\* First session of a draft; `unset` is how the client writes "no champion".
PickStart(unset) ==
    MkDraft(lcuGame, Undefined, "BAN_PICK",
            <<MkTeam(BlueTeam, <<MkCell(0, unset, 0, ""), MkCell(1, unset, 0, "")>>, <<>>),
              MkTeam(RedTeam, <<MkCell(2, unset, 0, "")>>, <<>>)>>,
            PickSchedule, Undefined)

\* Positions <<team, index>> of the cells that hover and lock.
PickingCells == {<<1, 1>>, <<2, 1>>}

\* Sessions that may follow session d in the same draft: a cell changes its
\* hover, a cell locks (a locked value is never taken back), or a turn
\* changes its flags.
PickDeltas(d) ==
    {[d EXCEPT !.teams[p[1]].cells[p[2]].selected_champion_id = v] :
        p \in PickingCells, v \in {Undefined, 0, Champ}}
    \cup {[d EXCEPT !.teams[p[1]].cells[p[2]].champion_id = Champ] :
        p \in {q \in PickingCells :
                ~Truthy(d.teams[q[1]].cells[q[2]].champion_id)}}
    \cup {[d EXCEPT !.actions[i].is_in_progress = a, !.actions[i].completed = b] :
        i \in 1..Len(d.actions), a \in BOOLEAN, b \in BOOLEAN}

PickSessions ==
    IF IsSome(lcuSession) THEN PickDeltas(Get(lcuSession))
    ELSE {PickStart(u) : u \in {Undefined, 0}}

NextPicks ==
    \/ \E ds \in PickSessions : Publish(ds)
    \/ \E ph \in GameflowPhases : LcuPhaseChanges(ph)

SpecPicks == InitConnected /\ [][NextPicks]_vars

\* C5: in every snapshot, a cell whose locked champion id is neither null
\* nor 0 is classified LOCKED, and neither actively selecting nor
\* pre-locked, whatever pick action is in progress for it and whatever it
\* has preselected.
C5_LockedWins ==
    IsSome(draftState) =>
        \A c \in AllCells(Get(draftState)) :
            (c.champion_id # Undefined /\ c.champion_id # 0) =>
                /\ IsLocked(c)
                /\ ~IsActivelySelecting(Get(draftState), c)
                /\ ~IsPreLocked(Get(draftState), c)
                /\ CellClass(Get(draftState), c) = "LOCKED"

\* C5 happens: a locked cell that still has a preselection and whose pick
\* action is in progress.
C5_Witness ==
    /\ IsSome(draftState)
    /\ \E c \in AllCells(Get(draftState)) :
        /\ c.champion_id = Champ
        /\ c.selected_champion_id = Champ
        /\ ActivePickAction(Get(draftState), c)
        /\ CellClass(Get(draftState), c) = "LOCKED"

\* C6: when a snapshot is replaced by another of the same draft, every cell
\* classified LOCKED before is classified LOCKED after.
C6_LockedStaysLocked ==
    [][(/\ IsSome(draftState) /\ IsSome(draftState')
        /\ Get(draftState).game_id = Get(draftState').game_id)
       => \A c \in AllCells(Get(draftState)) :
            \A d \in AllCells(Get(draftState')) :
                (c.cell_id = d.cell_id /\ CellClass(Get(draftState), c) = "LOCKED")
                    => CellClass(Get(draftState'), d) = "LOCKED"]_vars

\* C6 happens: two cells are LOCKED; sessions change one thing at a time, so
\* one of them was LOCKED in an earlier snapshot of this draft and still is.
C6_Witness ==
    /\ IsSome(draftState)
    /\ \A c \in AllCells(Get(draftState)) :
        c.cell_id \in {0, 2} =>
            /\ CellClass(Get(draftState), c) = "LOCKED"
            /\ c.selected_champion_id = Undefined

(***************************************************************************)
(* Specification of the ban classifier: the listener applied to the        *)
(* sessions of drafts in which ban slots appear and change.                *)
(***************************************************************************)

\* Bound on the ban slots the client reports for a team.
MaxBans == 1

\* The ban turns of a draft, none begun.
BanSchedule ==
    <<MkAction("ban", 0, FALSE, FALSE), MkAction("ban", 1, FALSE, FALSE)>>

BanStart ==
    MkDraft(lcuGame, Undefined, "BAN_PICK",
            <<MkTeam(BlueTeam, <<MkCell(0, 0, 0, ""), MkCell(1, 0, 0, "")>>, <<>>),
              MkTeam(RedTeam, <<MkCell(2, 0, 0, "")>>, <<>>)>>,
            BanSchedule, Undefined)

\* The values a ban slot of the client can hold.
BanValues ==
    {MkBan(v, c, done) : v \in {NoBanSentinel, 0, Champ},
                         c \in {Undefined, 0, 1}, done \in BOOLEAN}

\* Sessions that may follow session d in the same draft: the blue team gets
\* a further ban slot, a slot changes, or a turn changes its flags.
BanDeltas(d) ==
    {[d EXCEPT !.teams[1].bans = Append(@, b)] :
        b \in IF Len(d.teams[1].bans) < MaxBans THEN BanValues ELSE {}}
    \cup {[d EXCEPT !.teams[1].bans[k] = b] :
        k \in 1..Len(d.teams[1].bans), b \in BanValues}
    \cup {[d EXCEPT !.actions[i].is_in_progress = a, !.actions[i].completed = b] :
        i \in 1..Len(d.actions), a \in BOOLEAN, b \in BOOLEAN}

BanSessions ==
    IF IsSome(lcuSession) THEN BanDeltas(Get(lcuSession)) ELSE {BanStart}

NextBans ==
    \/ \E ds \in BanSessions : Publish(ds)
    \/ \E ph \in GameflowPhases : LcuPhaseChanges(ph)

SpecBans == InitConnected /\ [][NextBans]_vars

\* C9: every rendered ban slot holding the sentinel -1 is drawn by the
\* NO_BAN branch, labelled SELECTED when completed, whatever the action list
\* and the completed flag; a slot holding 0 and a missing slot are drawn by
\* the EMPTY branch.
C9_NoBanIsNotEmpty ==
    IsSome(draftState) =>
        \A t \in 1..Len(Get(draftState).teams) : \A idx \in 1..BanSlotsShown :
            LET b == BanAt(Get(draftState).teams[t], idx)
                r == BanSlot(b, Get(draftState).actions)
            IN  /\ (IsSome(b) /\ Get(b).champion_id = -1) =>
                      /\ r.kind = "NO_BAN"
                      /\ Get(b).completed => r.label = "SELECTED"
                /\ (~IsSome(b) \/ Get(b).champion_id = 0) => r.kind = "EMPTY"

\* C9 happens: a completed sentinel ban whose owner's ban action is still
\* flagged in progress, next to a missing slot.
C9_Witness ==
    /\ IsSome(draftState)
    /\ LET team == Get(draftState).teams[1]
       IN  /\ Len(team.bans) = 1
           /\ team.bans[1] = MkBan(-1, 1, TRUE)
           /\ ActiveBanAction(team.bans[1], Get(draftState).actions)
           /\ BanSlot(BanAt(team, 1), Get(draftState).actions).label = "SELECTED"
           /\ BanSlot(BanAt(team, 2), Get(draftState).actions).kind = "EMPTY"

(***************************************************************************)
(* Specification of the timer reconciler: sessions with and without a      *)
(* timer arrive, time passes, the countdown interval fires, and the phase  *)
(* poll may end the draft.                                                 *)
(***************************************************************************)

\* Timer values the client reports, in seconds; the last one lies above
\* both ceilings.
TimerValues == {Undefined, 0, 1, 3, 31}

TimerSessions ==
    {[FreshDraft(lcuGame, t, Undefined, "", "") EXCEPT !.phase = ph] :
        t \in TimerValues, ph \in {"BAN_PICK", "FINALIZATION"}}

NextTimer ==
    \/ \E ds \in TimerSessions : Publish(ds)
    \/ SecondPasses
    \/ \E iv \in intervals : IntervalTick(iv)
    \/ \E ph \in GameflowPhases : LcuPhaseChanges(ph)
    \/ PollStep

SpecTimer == InitConnected /\ [][NextTimer]_vars

\* C7: a callback of the countdown interval never raises the displayed
\* timer, and the step that applies a snapshot with a defined timer leaves
\* the displayed timer equal to that snapshot's timer.
C7_TimerNonIncreasingAndExact ==
    /\ [][(\E iv \in intervals : IntervalTick(iv))
            => currentTimer' <= currentTimer]_vars
    /\ [][\A ds \in TimerSessions :
            (Publish(ds) /\ ds.timer # Undefined)
                => currentTimer' = ds.timer]_vars

\* C7 happens: a snapshot with timer 3 was applied and a later callback of
\* its interval has lowered the displayed timer.
C7_Witness ==
    /\ IsSome(draftState)
    /\ Get(draftState).timer = 3
    /\ \E iv \in intervals :
        /\ iv.startTimer = 3
        /\ iv.elapsed = 2
        /\ currentTimer = 1

(***************************************************************************)
(* Specification of the role resolver: sessions with and without assigned  *)
(* positions and a local player arrive, the operator clicks roles, the     *)
(* phase poll runs, and the client may leave champion select and enter the *)
(* next draft.                                                             *)
(***************************************************************************)

\* Assigned positions of the two blue cells in a draft: the client assigns
\* a position to every cell of a team, all different, or to none.
StartPositions ==
    {<<"", "">>, <<"TOP", "JUNGLE">>, <<"JUNGLE", "TOP">>}

\* Sessions: a draft starts with its positions; later the client may come
\* to know the local player's cell.
RoleSessions ==
    IF IsSome(lcuSession)
    THEN {Get(lcuSession)} \cup
         {[Get(lcuSession) EXCEPT !.local_player_cell_id = c] :
            c \in IF Get(lcuSession).local_player_cell_id = Undefined
                  THEN CellIds ELSE {}}
    ELSE {FreshDraft(lcuGame, Undefined, lc, p[1], p[2]) :
            lc \in {Undefined} \cup CellIds, p \in StartPositions}

\* The roles clicked in this specification.
ClickedRoles == {"TOP", "JUNGLE", "MIDDLE"}

NextRoles ==
    \/ \E ds \in RoleSessions : Publish(ds)
    \/ /\ IsSome(draftState)
       /\ \E t \in 1..2 : \E c \in AllCells(Get(draftState)) :
            \E r \in ClickedRoles : \E sel \in {Undefined, 1} :
                SelectRole(t, c, r, sel)
    \/ \E ph \in GameflowPhases : LcuPhaseChanges(ph)
    \/ PollStep

SpecRoles == InitConnected /\ [][NextRoles]_vars

\* C8: in every state, no two cells of one team show the same non-empty
\* role, the shown role being the assigned position if present and else the
\* manual entry.
C8_RoleUniqueness ==
    IsSome(draftState) =>
        \A t \in 1..Len(Get(draftState).teams) :
            \A c, d \in SeqToSet(Get(draftState).teams[t].cells) :
                (c.cell_id # d.cell_id /\ DisplayRole(c, manualRoles) # "")
                    => DisplayRole(c, manualRoles) # DisplayRole(d, manualRoles)

(***************************************************************************)
(* Specification of the advisory coordinator: the sessions of one draft in *)
(* which the local player hovers, locks and hands the turn on arrive, the  *)
(* operator clicks roles, time passes, and requests are issued, answered   *)
(* and rejected.                                                           *)
(***************************************************************************)

\* The local player's cell in these sessions, and where it is.
LocalCell == 1
LocalAt == <<1, 2>>

AdvStart ==
    MkDraft(lcuGame, Undefined, "BAN_PICK",
            <<MkTeam(BlueTeam, <<MkCell(0, 0, 0, ""), MkCell(1, 0, 0, "")>>, <<>>),
              MkTeam(RedTeam, <<MkCell(2, 0, 0, "")>>, <<>>)>>,
            <<MkAction("pick", LocalCell, FALSE, FALSE),
              MkAction("pick", 2, FALSE, FALSE)>>,
            LocalCell)

\* Sessions that may follow session d: the same again, the local player
\* locks during the own turn, a turn begins once the one before it is
\* completed, and a turn in progress is completed (the local player's once
\* the champion is locked).
AdvDeltas(d) ==
    LET me == d.teams[LocalAt[1]].cells[LocalAt[2]]
    IN  {d}
        \cup {[d EXCEPT !.teams[LocalAt[1]].cells[LocalAt[2]].champion_id = Champ] :
                x \in IF d.actions[1].is_in_progress THEN {1} ELSE {}}
        \cup {[d EXCEPT !.actions[i].is_in_progress = TRUE] :
                i \in {j \in 1..Len(d.actions) :
                        /\ ~d.actions[j].is_in_progress
                        /\ ~d.actions[j].completed
                        /\ (j > 1 => d.actions[j - 1].completed)}}
        \cup {[d EXCEPT !.actions[i].is_in_progress = FALSE,
                        !.actions[i].completed = TRUE] :
                i \in {j \in 1..Len(d.actions) :
                        /\ d.actions[j].is_in_progress
                        /\ (j = 1 => Truthy(me.champion_id))}}

AdvSessions ==
    IF IsSome(lcuSession) THEN AdvDeltas(Get(lcuSession)) ELSE {AdvStart}

NextAdvisory ==
    \/ \E ds \in AdvSessions : Publish(ds)
    \/ /\ IsSome(draftState)
       /\ \E t \in 1..2 : \E c \in AllCells(Get(draftState)) :
            \E r \in {"TOP", "JUNGLE"} : SelectRole(t, c, r, Undefined)
    \/ DebounceElapses
    \/ \E t \in timeouts : FetchRecommendations(t)
    \/ \E r \in inflight : AdviceResolved(r)
    \/ \E r \in inflight : AdviceRejected(r)

SpecAdvisory == InitConnected /\ [][NextAdvisory]_vars

\* C1: the stored advisory result never belongs to a request issued before
\* another request whose response has already been applied: a late response
\* to an older request does not overwrite the newer one.
C1_StaleResponseDiscarded ==
    IsSome(recommendations) =>
        \A g \in settled : Get(recommendations).gen >= g

\* C2: after every change of the snapshot or of the operator's role exactly
\* one debounce timeout is pending, it carries the new snapshot and role and
\* has the whole window ahead of it; and a request is issued only by a
\* timeout whose window has elapsed, with the current snapshot and role, and
\* leaves no timeout pending.
C2_Debounce ==
    [][/\ (/\ IsSome(draftState')
           /\ \/ draftState' # draftState
              \/ GetCurrentPlayerRole(Get(draftState'), manualRoles')
                    # GetCurrentPlayerRole(Get(draftState'), manualRoles))
          => timeouts' =
                {[draft |-> Get(draftState'),
                  role |-> GetCurrentPlayerRole(Get(draftState'), manualRoles'),
                  remaining |-> DebounceTicks]}
       /\ issued' # issued
          => /\ \E t \in timeouts : t.remaining = 0
             /\ timeouts' = {}
             /\ inflight' \ inflight =
                    {[gen |-> issued',
                      draft |-> Get(draftState),
                      role |-> GetCurrentPlayerRole(Get(draftState), manualRoles)]}
      ]_vars

\* C2 happens: the first request of the run is in flight and carries the
\* session reached after the turn began, the champion was locked, the turn
\* was completed, and a role was clicked: four changes, one request.
C2_Witness ==
    /\ issued = 1
    /\ \E r \in inflight :
        /\ r.gen = 1
        /\ r.draft.actions[1].completed
        /\ r.role = "TOP"
        /\ r.draft = Get(draftState)

\* The cell local_player_cell_id names holds a locked champion.
OperatorLockedIn(ds) ==
    \E c \in AllCells(ds) :
        /\ c.cell_id = ds.local_player_cell_id
        /\ c.champion_id # Undefined
        /\ c.champion_id # 0

\* C3: in every state in which the operator's cell holds a locked champion
\* the panel is suppressed, and no request is issued for a snapshot in which
\* the operator's cell holds a locked champion.
C3_SuppressedAfterLock ==
    [][(IsSome(draftState') /\ OperatorLockedIn(Get(draftState')))
        => /\ PanelView' = "suppressed"
           /\ \A r \in inflight' \ inflight : ~OperatorLockedIn(r.draft)]_vars

(***************************************************************************)
(* Connection supervisor: properties.                                      *)
(***************************************************************************)

\* C4: when the connectivity probe of autoConnect fails, the held snapshot,
\* the timer state, the manual role map and the advisory state are all
\* cleared by that failure.
C4_ProbeFailureClearsAll ==
    [][(\E i \in DOMAIN acRuns : AcProbeFail(i)) =>
            /\ draftState' = None
            /\ draftStateRef' = None
            /\ intervals' = {}
            /\ manualRoles' = NoRoles
            /\ recommendations' = None
            /\ timeouts' = {}
            /\ inflight' = {}]_vars

\* C10: a phase poll that reports a phase outside the draft phases sets the
\* held snapshot to null in the handling of that poll; the snapshot leaves
\* null only by a published session arriving; and a client that stays
\* reachable outside the draft phases leads to a snapshot that is null and
\* stays null.
C10_PhasePollNullsSnapshot ==
    /\ [][\A i \in DOMAIN polls :
            (PollResult(i) /\ polls[i] \in GameflowPhases \ {"ChampSelect"})
                => (draftState' = None /\ draftStateRef' = None)]_vars
    /\ [][(draftState = None /\ draftState' # None)
                => \E ds \in ConnSessions : Publish(ds)]_vars
    /\ (<>[](lcuUp /\ lcuPhase \in GameflowPhases \ {"ChampSelect"})
            => <>[](draftState = None))

\* C10 happens: a session was published and handled, the client has left
\* champion select, and the snapshot is null again.
C10_Witness ==
    /\ IsSome(lcuSession)
    /\ lcuUp
    /\ lcuPhase = "InProgress"
    /\ initPc = "done"
    /\ draftState = None
    /\ draftStateRef = None
    /\ intervals = {}
    /\ timeouts = {}


(***************************************************************************)
(* Timer reconciler: further properties.                                   *)
(***************************************************************************)

\* C11: in every state in which a snapshot is held, the displayed timer
\* value lies between 0 and maxTimer inclusive, and maxTimer is the ceiling
\* of the phase of the last snapshot that carried a timer.
C11_TimerWithinCeiling ==
    IsSome(draftState) =>
        /\ 0 <= currentTimer
        /\ currentTimer <= maxTimer
        /\ maxTimer \in {BAN_TIMER, PICK_TIMER}

\* C12: when a snapshot without a timer value replaces a snapshot that had
\* one while its countdown is running above zero, the countdown interval,
\* with its baseline and its elapsed time, is still running after the step,
\* and the displayed value is left as it was.
C12_TimerlessSnapshotKeepsBaseline ==
    [][(/\ IsSome(draftState) /\ Get(draftState).timer # Undefined
        /\ \E iv \in intervals : IntervalValue(iv) > 0
        /\ IsSome(draftState') /\ Get(draftState').timer = Undefined)
       => /\ intervals' = intervals
          /\ currentTimer' = currentTimer]_vars

\* C13: the step that applies a snapshot with a defined timer value leaves
\* a countdown running whose next callback displays that snapshot's timer:
\* the baseline is the new value and the elapsed time starts again, also
\* when the value is 0, equals the previous snapshot's, or is higher than
\* the value displayed.
C13_TimedSnapshotResetsBaseline ==
    [][\A ds \in TimerSessions :
        (Publish(ds) /\ ds.timer # Undefined)
            => /\ intervals' # {}
               /\ \A iv \in intervals' : IntervalValue(iv) = Max(0, ds.timer)]_vars

(***************************************************************************)
(* Operator identity: properties.                                          *)
(***************************************************************************)

\* C14: in every state whose snapshot supplies local_player_cell_id, the
\* cell allowed to select a role is exactly that cell, the player team is
\* exactly the team holding it, and the cell the advisory panel takes for
\* the operator (for peer intent and the locked-check) is that cell.
C14_LocalCellAuthoritative ==
    (IsSome(draftState) /\ Get(draftState).local_player_cell_id # Undefined) =>
        LET ds == Get(draftState)
            me == ds.local_player_cell_id
        IN  /\ \A t \in 1..Len(ds.teams) :
                /\ IsPlayerTeam(ds, t) <=> PlayerTeamIndex(ds, me) = t
                /\ \A c \in SeqToSet(ds.teams[t].cells) :
                    \A sel \in {Undefined} \cup CellIds :
                        IsCurrentPlayer(ds, t, c, sel) <=> c.cell_id = me
            /\ GetCurrentPlayerCellId(ds) = me
            /\ HasPlayerLockedChampion(ds) <=> OperatorLockedIn(ds)


(***************************************************************************)
(* Role resolver: the roles offered.                                       *)
(***************************************************************************)

\* Specification of the role selector alone: sessions arrive, the operator
\* clicks roles, and the client may go on to the next draft; the phase poll
\* is left out.
NextOffer ==
    \/ \E ds \in RoleSessions : Publish(ds)
    \/ /\ IsSome(draftState)
       /\ \E t \in 1..2 : \E c \in AllCells(Get(draftState)) :
            \E r \in ClickedRoles : \E sel \in {Undefined, 1} :
                SelectRole(t, c, r, sel)
    \/ \E ph \in GameflowPhases : LcuPhaseChanges(ph)

SpecOffer == InitConnected /\ [][NextOffer]_vars

\* The role labels the other cells of the team hold: assigned position if
\* present, else manual entry.
HeldByOthers(team, cell, manual) ==
    {r \in RoleKeys :
        \E o \in SeqToSet(team.cells) :
            /\ o.cell_id # cell.cell_id
            /\ r = (IF o.assigned_position # "" THEN o.assigned_position
                    ELSE manual[o.cell_id])}

\* C15: in every state, the roles offered for a cell are the five roles
\* minus the roles held by the other cells of its team, plus the cell's own
\* current role; and a click stores only a role that was offered.
C15_OfferedRoles ==
    /\ [](IsSome(draftState) =>
            \A t \in 1..Len(Get(draftState).teams) :
                \A c \in SeqToSet(Get(draftState).teams[t].cells) :
                    AvailableRoles(Get(draftState).teams[t], c, manualRoles)
                        = (RoleKeys \ HeldByOthers(Get(draftState).teams[t], c,
                                                   manualRoles))
                          \cup ({DisplayRole(c, manualRoles)} \cap RoleKeys))
    /\ [][(IsSome(draftState) /\ IsSome(draftState'))
            => \A t \in 1..Len(Get(draftState).teams) :
                \A c \in SeqToSet(Get(draftState).teams[t].cells) :
                    manualRoles'[c.cell_id] # manualRoles[c.cell_id]
                        => manualRoles'[c.cell_id] \in
                            (RoleKeys \ HeldByOthers(Get(draftState).teams[t], c,
                                                     manualRoles))
                            \cup {DisplayRole(c, manualRoles)}]_vars

\* C15 happens: cell 0 holds TOP by a click; TOP is not offered to cell 1,
\* which has no role, and is still offered to cell 0 itself.
C15_Witness ==
    /\ IsSome(draftState)
    /\ manualRoles[0] = "TOP"
    /\ manualRoles[1] = ""
    /\ LET team == Get(draftState).teams[1]
       IN  /\ team.cells[1].assigned_position = ""
           /\ team.cells[2].assigned_position = ""
           /\ AvailableRoles(team, team.cells[2], manualRoles) = RoleKeys \ {"TOP"}
           /\ AvailableRoles(team, team.cells[1], manualRoles) = RoleKeys

(***************************************************************************)
(* Advisory coordinator: failure handling.                                 *)
(***************************************************************************)

\* C16: the step in which an advisory request fails sets the error
\* indicator, leaves the stored result as it was, issues no request and
\* schedules none; a request is scheduled only by a step in which a
\* snapshot arrives or the operator's role changes; a request is issued
\* only by such a scheduled timeout, and issuing it clears the error
\* indicator.
C16_FailureNoRetry ==
    /\ [][(\E r \in inflight : AdviceRejected(r))
            => /\ error'
               /\ recommendations' = recommendations
               /\ issued' = issued
               /\ inflight' \subseteq inflight
               /\ timeouts' = timeouts]_vars
    /\ [][(\E t \in timeouts' \ timeouts : t.remaining = DebounceTicks)
            => \/ \E ds \in AdvSessions : Publish(ds)
               \/ /\ IsSome(draftState)
                  /\ GetCurrentPlayerRole(Get(draftState), manualRoles')
                        # GetCurrentPlayerRole(Get(draftState), manualRoles)]_vars
    /\ [][(issued' # issued)
            => /\ \E t \in timeouts : t.remaining = 0 /\ t \notin timeouts'
               /\ ~error']_vars

\* C16 happens: the first request was answered and the second failed; the
\* error indicator is set, the first answer is still stored, and nothing is
\* pending or in flight.
C16_Witness ==
    /\ issued = 2
    /\ error
    /\ IsSome(recommendations)
    /\ Get(recommendations).gen = 1
    /\ settled = {1}
    /\ inflight = {}
    /\ timeouts = {}


(***************************************************************************)
(* Connection supervisor: the probe chain.                                 *)
(***************************************************************************)

\* The autoConnect chains alive: runs in progress and timers pending.
ProbeChains == Len(acRuns) + acTimers

\* C17: once initialize() has called autoConnect(), a probe is running or
\* pending in every state; every run of autoConnect that ends, by success or
\* by any failure, schedules the next one; and no step ends a chain.
C17_ProbeRetriedForever ==
    /\ [](initPc \in {"autoConnect", "listen", "done"} => ProbeChains >= 1)
    /\ [][Len(acRuns') < Len(acRuns) => acTimers' = acTimers + 1]_vars
    /\ [][ProbeChains' >= ProbeChains]_vars

\* C17 happens: start-up is over, the client has been in champion select
\* and is gone, the last run of autoConnect ended in its catch block, and
\* the next run is pending.
C17_Witness ==
    /\ initPc = "done"
    /\ lcuGame = 1
    /\ ~lcuUp
    /\ ~previousConnectedRef
    /\ ~monitoringStartedRef
    /\ acRuns = <<>>
    /\ acTimers = 1

\* C18: in every state at most one autoConnect chain is alive, a chain
\* being a run of autoConnect in progress or a pending
\* setTimeout(autoConnect, 3000); this includes the states after
\* initialize() has failed part-way and has been started again.
C18_SingleTimers == ProbeChains <= 1


(***************************************************************************)
(* Snapshot application.                                                   *)
(***************************************************************************)

\* C19: in every state, the snapshot reference read by the phase poll and
\* the snapshot given to the classifier, timer and role logic are the same
\* value; and a step that changes it either sets it to null, in the handling
\* of a phase poll, or sets it to the whole session just published.
C19_SnapshotAtomic ==
    /\ [](draftState = draftStateRef)
    /\ [][draftState' # draftState
            => \/ /\ draftState' = None
                  /\ \E i \in DOMAIN polls : PollResult(i)
               \/ \E ds \in ConnSessions :
                    Publish(ds) /\ draftState' = Some(ds)]_vars

\* C19 happens: the snapshot of a second draft is held, after the first
\* draft's snapshot was applied, and a phase poll is in flight.
C19_Witness ==
    /\ lcuGame = 2
    /\ IsSome(draftState)
    /\ Get(draftState) = FreshDraft(2, 30, 0, "", "")
    /\ draftStateRef = draftState
    /\ polls # <<>>

\* C20: a step that takes the snapshot from null to non-null applies a
\* snapshot with at least one team: a pushed snapshot with zero teams
\* leaves the snapshot null and the dashboard shown.
C20_InDraftNeedsTeam ==
    [][(draftState = None /\ draftState' # None)
        => Len(Get(draftState').teams) >= 1]_vars


(***************************************************************************)
(* Specification of peer intent: sessions of the local player's turn, in   *)
(* which the team-mate and the opponent hover and the team-mate locks,     *)
(* arrive while requests are issued, answered and rejected.                *)
(***************************************************************************)

\* Sessions of the local player's turn: the pick action of LocalCell is in
\* progress; cell 0 is the team-mate, cell 2 the opponent.
IntentSessions ==
    {[AdvStart EXCEPT !.actions[1].is_in_progress = TRUE,
                      !.teams[1].cells[1].selected_champion_id = h,
                      !.teams[1].cells[1].champion_id = l,
                      !.teams[2].cells[1].selected_champion_id = e] :
        h \in {Undefined, 0, Champ}, l \in {0, Champ}, e \in {0, Champ}}

NextIntent ==
    \/ \E ds \in IntentSessions : Publish(ds)
    \/ DebounceElapses
    \/ \E t \in timeouts : FetchRecommendations(t)
    \/ \E r \in inflight : AdviceResolved(r)
    \/ \E r \in inflight : AdviceRejected(r)

SpecIntent == InitConnected /\ [][NextIntent]_vars

\* The preselected champions of the cells that share a team with the cell
\* local_player_cell_id names, that cell left out, locked cells left out.
PeerIntent(ds) ==
    {c.selected_champion_id :
        c \in {x \in AllCells(ds) :
                /\ x.cell_id # ds.local_player_cell_id
                /\ \E t \in 1..Len(ds.teams) :
                    /\ x \in SeqToSet(ds.teams[t].cells)
                    /\ \E me \in SeqToSet(ds.teams[t].cells) :
                        me.cell_id = ds.local_player_cell_id
                /\ ~(x.champion_id # Undefined /\ x.champion_id # 0)
                /\ x.selected_champion_id # Undefined
                /\ x.selected_champion_id # 0}}

\* C21: in every state whose snapshot names the operator's cell, the
\* team-mate suggestions are the nonzero preselected champions of the
\* unlocked other cells of the operator's team, and whenever there are any
\* and the operator has not locked, the panel shows them, whether a request
\* is loading or has failed or not.
C21_PeerIntentShown ==
    (IsSome(draftState) /\ Get(draftState).local_player_cell_id # Undefined) =>
        /\ GetTeamPrelocks(Get(draftState)) = PeerIntent(Get(draftState))
        /\ (PeerIntent(Get(draftState)) # {} /\ ~OperatorLockedIn(Get(draftState)))
                => PanelView = "shown"


(***************************************************************************)
(* Role resolver: the manual role map.                                     *)
(***************************************************************************)

\* C22: an entry of the manual role map is added or changed only by a step
\* that is a click on that role in the selector of that cell; a step that
\* applies a snapshot leaves the map as it is.
C22_RolesOnlyByClick ==
    /\ [][\A c \in CellIds :
            (manualRoles'[c] # manualRoles[c] /\ manualRoles'[c] # "")
                => /\ IsSome(draftState)
                   /\ \E t \in 1..2 : \E cell \in AllCells(Get(draftState)) :
                        \E sel \in {Undefined, 1} :
                            /\ cell.cell_id = c
                            /\ SelectRole(t, cell, manualRoles'[c], sel)]_vars
    /\ [][(\E ds \in RoleSessions : Publish(ds))
            => manualRoles' = manualRoles]_vars

\* C22 happens: a role was clicked for cell 0 while the local player was
\* unknown; a later snapshot names cell 1 as the local player, and cell 1,
\* with no assigned position and roles free, still has no role.
C22_Witness ==
    /\ IsSome(draftState)
    /\ Get(draftState).local_player_cell_id = 1
    /\ \A c \in AllCells(Get(draftState)) : c.assigned_position = ""
    /\ manualRoles[0] = "TOP"
    /\ manualRoles[1] = ""


(***************************************************************************)
(* Action classifier: further properties.                                  *)
(***************************************************************************)

\* Some action of type ty, in progress and not completed, has actor cellId.
TurnInProgress(ds, ty, cellId) ==
    \E i \in 1..Len(ds.actions) :
        /\ ds.actions[i].type = ty
        /\ ds.actions[i].actor_cell_id = cellId
        /\ ds.actions[i].is_in_progress
        /\ ~ds.actions[i].completed

\* C23: in every snapshot, a pick cell is actively selecting exactly when it
\* is not locked, has a nonzero preselected champion and a pick action of
\* its cell id is in progress; and a ban slot holding a champion is actively
\* banning exactly when it is not completed and a ban action of its cell id
\* is in progress, whatever the cell id, 0 included.
C23_ActiveExactly ==
    IsSome(draftState) =>
        LET ds == Get(draftState)
        IN  /\ \A c \in AllCells(ds) :
                IsActivelySelecting(ds, c) <=>
                    /\ ~(c.champion_id # Undefined /\ c.champion_id # 0)
                    /\ c.selected_champion_id # Undefined
                    /\ c.selected_champion_id # 0
                    /\ TurnInProgress(ds, "pick", c.cell_id)
            /\ \A t \in 1..Len(ds.teams) : \A k \in 1..Len(ds.teams[t].bans) :
                LET ban == ds.teams[t].bans[k]
                IN  (ban.champion_id # Undefined /\ ban.champion_id > 0) =>
                        (BanSlot(Some(ban), ds.actions).active <=>
                            /\ ~ban.completed
                            /\ ban.cell_id # Undefined
                            /\ TurnInProgress(ds, "ban", ban.cell_id))

\* C24: in every snapshot and for every cell, at most one of locked,
\* actively selecting and pre-locked holds; the cell is drawn empty exactly
\* when none holds; and none holds whenever the cell has neither a nonzero
\* locked nor a nonzero preselected champion, whatever pick action is in
\* progress for it.
C24_ExactlyOneState ==
    IsSome(draftState) =>
        \A c \in AllCells(Get(draftState)) :
            LET ds == Get(draftState)
                l == IsLocked(c)
                a == IsActivelySelecting(ds, c)
                p == IsPreLocked(ds, c)
            IN  /\ ~(l /\ a) /\ ~(l /\ p) /\ ~(a /\ p)
                /\ (CellClass(ds, c) = "") <=> (~l /\ ~a /\ ~p)
                /\ (/\ ~(c.champion_id # Undefined /\ c.champion_id # 0)
                    /\ ~(c.selected_champion_id # Undefined
                            /\ c.selected_champion_id # 0))
                        => (~l /\ ~a /\ ~p)

\* C24 happens: cell 0 has nothing locked and nothing preselected while its
\* pick action is in progress, and is drawn empty; cell 2 is locked with its
\* preselection still set and no turn in progress.
C24_Witness ==
    /\ IsSome(draftState)
    /\ \E c \in AllCells(Get(draftState)) :
        /\ c.cell_id = 0
        /\ c.champion_id = Undefined
        /\ c.selected_champion_id = 0
        /\ ActivePickAction(Get(draftState), c)
        /\ CellClass(Get(draftState), c) = ""
    /\ \E c \in AllCells(Get(draftState)) :
        /\ c.cell_id = 2
        /\ c.champion_id = Champ
        /\ c.selected_champion_id = Champ
        /\ ~ActivePickAction(Get(draftState), c)
        /\ CellClass(Get(draftState), c) = "LOCKED"


(***************************************************************************)
(* Role resolver: the role sent with an advisory request.                  *)
(***************************************************************************)

\* C25: in every state where the operator's cell is known and is a cell of
\* the snapshot, the role passed to the advisory panel, and with it the role
\* of every request the panel has scheduled for the current snapshot, is the
\* role displayed on the operator's cell: the assigned position if present,
\* else the manual entry, else none.
C25_SentRoleIsDisplayedRole ==
    (/\ IsSome(draftState)
     /\ CurrentPlayerCellId(Get(draftState)) # Undefined
     /\ PlayerTeamIndex(Get(draftState),
                        CurrentPlayerCellId(Get(draftState))) # 0) =>
        LET ds == Get(draftState)
            cell == CHOOSE c \in AllCells(ds) :
                        c.cell_id = CurrentPlayerCellId(ds)
        IN  /\ GetCurrentPlayerRole(ds, manualRoles)
                    = DisplayRole(cell, manualRoles)
            /\ \A t \in timeouts :
                    (t.draft = ds /\ t.remaining = DebounceTicks)
                        => t.role = DisplayRole(cell, manualRoles)


(***************************************************************************)
(* Advisory trigger: the loading indicator.                                *)
(***************************************************************************)

\* C26: loading is true in every state in which some advisory request has
\* been issued and has not settled, also when two requests overlap and the
\* older one settles first.
C26_LoadingWhileInFlight == (inflight # {}) => loading


(***************************************************************************)
(* Connection supervisor: the order of start-up and monitoring.            *)
(***************************************************************************)

\* C27: start_draft_monitoring is invoked, and monitoring runs, only once
\* the draft-snapshot listener is registered.
C27_ListenerBeforeMonitoring ==
    (monitoringStartedRef \/ \E i \in DOMAIN acRuns : acRuns[i].pc = "start")
        => initPc = "done"

\* C28: a successful probe that follows a successful probe, with no failure
\* between them, does not invoke start_draft_monitoring while an earlier
\* invocation is still pending, whatever autoConnect run it belongs to; and
\* the first successful probe after a failure invokes it.
C28_MonitoringStartedOnce ==
    [][\A i \in DOMAIN acRuns :
        AcProbeOk(i) =>
            /\ (previousConnectedRef /\ acRuns'[i].pc = "start")
                    => \A j \in DOMAIN acRuns : acRuns[j].pc # "start"
            /\ (~previousConnectedRef /\ ~monitoringStartedRef)
                    => acRuns'[i].pc = "start"]_vars


\* C29: a phase-poll result does not clear the snapshot of the draft the
\* client is in: a poll answered before that draft began, whose result
\* arrives after the draft's snapshot was applied, leaves the snapshot.
C29_StalePollKeepsNewDraft ==
    [][\A i \in DOMAIN polls :
        (/\ PollResult(i)
         /\ IsSome(draftState)
         /\ lcuUp
         /\ lcuPhase \in DraftPhases
         /\ Get(draftState).game_id = lcuGame)
            => draftState' = draftState]_vars


(***************************************************************************)
(* Connection supervisor: fetchPlayerInfo.                                 *)
(***************************************************************************)

\* Specification of the player-data fetch: start-up and the autoConnect
\* chain against a client that starts and stops.
NextFetch ==
    \/ InitLoaded
    \/ InitListening
    \/ AutoConnectStep
    \/ LcuStarts
    \/ LcuStops

SpecFetch == InitApp /\ [][NextFetch]_vars

\* Every awaited invoke of fetchPlayerInfo settles and every back-off
\* timeout fires.
SpecFetchFair ==
    /\ SpecFetch
    /\ WF_vars(\E i \in DOMAIN acRuns : AcFetchOk(i) \/ AcFetchFail(i))

\* C30: fetchPlayerInfo always terminates, after at most four attempts, the
\* first and three retries; the step in which it returns, it returns true
\* exactly when the attempt had obtained the summoner and the ranked stats,
\* which are then both stored; and it returns false only from a failed
\* fourth attempt, with summoner info, ranked stats and match history all
\* cleared.
C30_FetchPlayerInfo ==
    /\ [](\A i \in DOMAIN acRuns : acRuns[i].retryCount <= maxRetries)
    /\ (\E i \in DOMAIN acRuns : acRuns[i].pc \in FetchPcs)
            ~> (\A i \in DOMAIN acRuns : acRuns[i].pc \notin FetchPcs)
    /\ [][\A i \in DOMAIN acRuns :
            (/\ Len(acRuns') = Len(acRuns)
             /\ acRuns[i].pc \in FetchPcs
             /\ acRuns'[i].pc \notin FetchPcs) =>
                /\ acRuns'[i].returned \in {"true", "false"}
                /\ acRuns'[i].returned = "true" <=> acRuns[i].pc = "history"
                /\ acRuns'[i].returned = "true"
                        => summonerInfo' /\ rankedStats'
                /\ acRuns'[i].returned = "false"
                        => /\ acRuns[i].retryCount = maxRetries
                           /\ ~summonerInfo'
                           /\ ~rankedStats'
                           /\ ~matchHistory']_vars

\* C30 happens: a fetchPlayerInfo has returned false after its fourth
\* attempt, with the player data cleared.
C30_Witness ==
    \E i \in DOMAIN acRuns :
        /\ acRuns[i].pc = "tail"
        /\ acRuns[i].returned = "false"
        /\ acRuns[i].retryCount = maxRetries
        /\ ~summonerInfo /\ ~rankedStats /\ ~matchHistory

=============================================================================
